---- MODULE Spec2Model ----
(***************************************************************************)
(* A model of src/script.js, the game logic of a 2048 sliding-tile puzzle: *)
(* the line transform slideCombineRow, the four directional move cores,    *)
(* handleMove, undoMove, initGame, the terminal-state check and the        *)
(* delayed callback scheduled by render.                                   *)
(*                                                                         *)
(* Conventions.  A JavaScript array is a TLA+ sequence, so grid[r][c] of   *)
(* the source is grid[r + 1][c + 1] here; every index the program itself   *)
(* stores (mergedIndices, the keys of mergedMap, lastAddedPos) keeps the   *)
(* source's 0-based value.  null is the empty sequence Null.               *)
(***************************************************************************)
EXTENDS Integers, Sequences, FiniteSets, TLC

VARIABLES
    grid,          \* script.js:11   the SIZE x SIZE board, 0 = empty
    score,         \* script.js:12
    lastGrid,      \* script.js:13   undo snapshot of the grid, or Null
    lastScore,     \* script.js:14   undo snapshot of the score
    lastAddedPos,  \* script.js:15   <<r, c>> of the last spawned tile, or Null
    mergedMap,     \* script.js:16   set of <<r, c>> keys mapped to true
    gameOver,      \* script.js:17
    gameWon,       \* script.js:18
    bestScore,     \* script.js:9
    storedBest,    \* localStorage item 'bestScore' (script.js:9, 239): its digits, or Null
    timers,        \* number of pending setTimeout callbacks of render (script.js:338)
    ops,           \* history: the handler calls so far, each named by the path it took
    pre,           \* history: the core state in which the last handler started
    arg,           \* harness: the input of the pure function under check
    ret            \* harness: what the pure function returned for arg

vars == <<grid, score, lastGrid, lastScore, lastAddedPos, mergedMap, gameOver,
          gameWon, bestScore, storedBest, timers, ops, pre, arg, ret>>

gameVars == <<grid, score, lastGrid, lastScore, lastAddedPos, mergedMap, gameOver,
              gameWon, bestScore, storedBest, timers, ops, pre>>

-----------------------------------------------------------------------------
(* Program constants and the bounds of the model *)

SIZE == 4

WinTile == 2048

\* largest exponent e of a tile value 2^e in the lines handed to slideCombineRow
MaxLineExp == 11

\* number of handler calls (initGame, handleMove, undoMove) explored from a start state
MaxSteps == 3

\* number of cells by which an enumerated grid may differ from its base pattern
MaxEdits == 2

Null == <<>>

Idx == 0 .. (SIZE - 1)

Pos == Idx \X Idx

RECURSIVE Pow2(_)
Pow2(e) == IF e = 0 THEN 1 ELSE 2 * Pow2(e - 1)

\* the sequence <<F(1), ..., F(n)>>, built element by element
RECURSIVE Tabulate(_, _)
Tabulate(F(_), n) == IF n = 0 THEN <<>> ELSE Append(Tabulate(F, n - 1), F(n))

RECURSIVE SumSeq(_)
SumSeq(s) == IF s = <<>> THEN 0 ELSE Head(s) + SumSeq(Tail(s))

\* sum of all cells of a grid
GridSum(g) == SumSeq(Tabulate(LAMBDA r : SumSeq(g[r]), SIZE))

Reverse(s) == Tabulate(LAMBDA i : s[Len(s) + 1 - i], Len(s))

\* the elements of a sequence, as a set
Range(s) == {s[i] : i \in 1 .. Len(s)}

-----------------------------------------------------------------------------
(* utility deep copy: a fresh array of fresh rows with the same values.     *)
(* Values have no identity in TLA+, so the copy is the value itself; what   *)
(* the copy buys the program (no aliasing of the snapshot with the live     *)
(* grid) is how the actions below use it.                                   *)
copyGrid(src) == Tabulate(LAMBDA r : Tabulate(LAMBDA c : src[r][c], Len(src[r])), Len(src))

-----------------------------------------------------------------------------
(* slideCombineRow, script.js:84-99 *)

\* arr.splice(i + 1, 1) for the 0-based index i: element i + 1 is removed
Splice1(arr, i) == SubSeq(arr, 1, i + 1) \o SubSeq(arr, i + 3, Len(arr))

\* the for loop of lines 89-96, entered at the 0-based index i; arr.length is
\* read again on every iteration
RECURSIVE CombineLoopChained(_, _, _, _)
CombineLoopChained(arr, i, gained, mergedIndices) ==
    IF ~(i < Len(arr) - 1)
    THEN [arr |-> arr, gained |-> gained, mergedIndices |-> mergedIndices]
    ELSE IF arr[i + 1] = arr[i + 2]
         THEN CombineLoopChained(Splice1([arr EXCEPT ![i + 1] = arr[i + 1] * 2], i), i,
                                 gained + arr[i + 1] * 2, Append(mergedIndices, i))
         ELSE CombineLoopChained(arr, i + 1, gained, mergedIndices)

RECURSIVE CombineLoop(_, _, _, _)
CombineLoop(arr, i, gained, mergedIndices) ==
    IF ~(i < Len(arr) - 1)
    THEN [arr |-> arr, gained |-> gained, mergedIndices |-> mergedIndices]
    ELSE IF arr[i + 1] = arr[i + 2]
         THEN CombineLoop(Splice1([arr EXCEPT ![i + 1] = arr[i + 1] * 2], i), i + 1,
                          gained + arr[i + 1] * 2, Append(mergedIndices, i))
         ELSE CombineLoop(arr, i + 1, gained, mergedIndices)

\* while (arr.length < SIZE) arr.push(0)
RECURSIVE PadZeros(_)
PadZeros(arr) == IF Len(arr) < SIZE THEN PadZeros(Append(arr, 0)) ELSE arr

\* a mutant of slideCombineRow: the zeros are not filtered out before the loop
slideCombineRowNoFilter(row) ==
    LET done == CombineLoop(row, 0, 0, <<>>)
    IN  [newRow |-> PadZeros(done.arr), mergedIndices |-> done.mergedIndices,
         gained |-> done.gained]

\* the mutant of slideCombineRow: the loop index is not advanced after a merge,
\* so a freshly merged tile is compared with its new neighbour again
slideCombineRowChained(row) ==
    LET arr == SelectSeq(row, LAMBDA v : v # 0)
        done == CombineLoopChained(arr, 0, 0, <<>>)
    IN  [newRow |-> PadZeros(done.arr), mergedIndices |-> done.mergedIndices,
         gained |-> done.gained]

slideCombineRow(row) ==
    LET arr == SelectSeq(row, LAMBDA v : v # 0)
        done == CombineLoop(arr, 0, 0, <<>>)
    IN  [newRow |-> PadZeros(done.arr), mergedIndices |-> done.mergedIndices,
         gained |-> done.gained]

-----------------------------------------------------------------------------
(* Score: bumpScore (script.js:219-228) and updateScoreDisplay (231-242).   *)
(* A score state is [score, bestScore, storedBest].                         *)

\* bestScore.toString() for an integer n >= 0: the decimal digits of n
RECURSIVE toString(_)
toString(n) == IF n < 10 THEN <<n>> ELSE Append(toString(n \div 10), n % 10)

\* parseInt(str) for a string of decimal digits: their value
RECURSIVE parseInt(_)
parseInt(str) ==
    IF Len(str) = 1 THEN str[1]
    ELSE 10 * parseInt(SubSeq(str, 1, Len(str) - 1)) + str[Len(str)]

\* a mutant of updateScoreDisplay: the comparison is missing
updateScoreDisplayAlways(sc) ==
    [sc EXCEPT !.bestScore = sc.score, !.storedBest = toString(sc.score)]

\* if (score > bestScore) { bestScore = score; localStorage.setItem(...) }
updateScoreDisplay(sc) ==
    IF sc.score > sc.bestScore
    THEN [sc EXCEPT !.bestScore = sc.score, !.storedBest = toString(sc.score)]
    ELSE sc

\* a mutant of bumpScore: score = additional in place of score += additional
bumpScoreAssigns(sc, additional) ==
    updateScoreDisplay([sc EXCEPT !.score = additional])

\* score += additional; updateScoreDisplay()
bumpScore(sc, additional) ==
    updateScoreDisplay([sc EXCEPT !.score = sc.score + additional])

\* the tail shared by the four cores: if (totalGained > 0) bumpScore(totalGained)
BumpIfGained(sc, totalGained) ==
    IF totalGained > 0 THEN bumpScore(sc, totalGained) ELSE sc

-----------------------------------------------------------------------------
(* The four move cores, script.js:102-216.  Each takes the grid and the     *)
(* score state and returns the grid, mergedMap, the score state and moved.  *)

\* column c (0-based) of g, read top to bottom (lines 165-166, 192-193)
Column(g, c) == Tabulate(LAMBDA r : g[r][c + 1], SIZE)

\* the sum of the gained fields of the lines' results
TotalGained(res) == SumSeq(Tabulate(LAMBDA k : res[k].gained, SIZE))

\* moveLeftCore, script.js:102-127.  JSON.stringify of two arrays of integers
\* gives equal strings exactly when the arrays are equal, element by element.
moveLeftCore(g, sc) ==
    LET res == Tabulate(LAMBDA r : slideCombineRow(g[r]), SIZE)
    IN  [grid |-> Tabulate(LAMBDA r : res[r].newRow, SIZE),
         moved |-> \E r \in 1 .. SIZE : g[r] # res[r].newRow,
         mergedMap |-> {p \in Pos : p[2] \in Range(res[p[1] + 1].mergedIndices)},
         sc |-> BumpIfGained(sc, TotalGained(res))]

\* a mutant of moveRightCore: the row is handed to slideCombineRow as it is and
\* only the result is reversed
moveRightCoreSlidLeft(g, sc) ==
    LET res == Tabulate(LAMBDA r : slideCombineRow(g[r]), SIZE)
        finalRow == Tabulate(LAMBDA r : Reverse(res[r].newRow), SIZE)
    IN  [grid |-> finalRow,
         moved |-> \E r \in 1 .. SIZE : g[r] # finalRow[r],
         mergedMap |-> {p \in Pos : (SIZE - 1 - p[2]) \in Range(res[p[1] + 1].mergedIndices)},
         sc |-> BumpIfGained(sc, TotalGained(res))]

\* moveRightCore, script.js:129-157
moveRightCore(g, sc) ==
    LET res == Tabulate(LAMBDA r : slideCombineRow(Reverse(g[r])), SIZE)
        finalRow == Tabulate(LAMBDA r : Reverse(res[r].newRow), SIZE)
    IN  [grid |-> finalRow,
         moved |-> \E r \in 1 .. SIZE : g[r] # finalRow[r],
         mergedMap |-> {p \in Pos : (SIZE - 1 - p[2]) \in Range(res[p[1] + 1].mergedIndices)},
         sc |-> BumpIfGained(sc, TotalGained(res))]

\* moveUpCore, script.js:159-184
moveUpCore(g, sc) ==
    LET res == Tabulate(LAMBDA c : slideCombineRow(Column(g, c - 1)), SIZE)
    IN  [grid |-> Tabulate(LAMBDA r : Tabulate(LAMBDA c : res[c].newRow[r], SIZE), SIZE),
         moved |-> \E r \in 1 .. SIZE, c \in 1 .. SIZE : g[r][c] # res[c].newRow[r],
         mergedMap |-> {p \in Pos : p[1] \in Range(res[p[2] + 1].mergedIndices)},
         sc |-> BumpIfGained(sc, TotalGained(res))]

\* moveDownCore, script.js:186-216
moveDownCore(g, sc) ==
    LET res == Tabulate(LAMBDA c : slideCombineRow(Reverse(Column(g, c - 1))), SIZE)
        finalCol == Tabulate(LAMBDA c : Reverse(res[c].newRow), SIZE)
    IN  [grid |-> Tabulate(LAMBDA r : Tabulate(LAMBDA c : finalCol[c][r], SIZE), SIZE),
         moved |-> \E r \in 1 .. SIZE, c \in 1 .. SIZE : g[r][c] # finalCol[c][r],
         mergedMap |-> {p \in Pos : (SIZE - 1 - p[1]) \in Range(res[p[2] + 1].mergedIndices)},
         sc |-> BumpIfGained(sc, TotalGained(res))]

Directions == {"left", "right", "up", "down"}

\* the four ifs of handleMove, script.js:251-255: a direction that is none of
\* the four strings runs no core and leaves moved = false
MoveCore(direction, g, sc) ==
    IF direction = "left" THEN moveLeftCore(g, sc)
    ELSE IF direction = "right" THEN moveRightCore(g, sc)
    ELSE IF direction = "up" THEN moveUpCore(g, sc)
    ELSE IF direction = "down" THEN moveDownCore(g, sc)
    ELSE [grid |-> g, moved |-> FALSE, mergedMap |-> {}, sc |-> sc]

-----------------------------------------------------------------------------
(* Terminal-state detection, script.js:289-312 *)

\* the mutant of hasMoves: vertical neighbours are not compared
hasMovesRowsOnly(g) ==
    \E r \in Idx, c \in Idx :
        \/ g[r + 1][c + 1] = 0
        \/ (c < SIZE - 1 /\ g[r + 1][c + 1] = g[r + 1][c + 2])

\* hasMoves, script.js:289-298
hasMoves(g) ==
    \E r \in Idx, c \in Idx :
        \/ g[r + 1][c + 1] = 0
        \/ (c < SIZE - 1 /\ g[r + 1][c + 1] = g[r + 1][c + 2])
        \/ (r < SIZE - 1 /\ g[r + 1][c + 1] = g[r + 2][c + 1])

\* grid.some(row => row.includes(2048))
Includes2048(g) == \E r \in 1 .. SIZE : WinTile \in Range(g[r])

\* a mutant of checkGameState: two independent tests instead of if / else if
checkGameStateIndependent(g, won, over) ==
    [gameWon |-> won \/ Includes2048(g), gameOver |-> over \/ ~hasMoves(g)]

\* a mutant of checkGameState: the test for moves comes before the test for 2048
checkGameStateOverFirst(g, won, over) ==
    IF ~hasMoves(g) THEN [gameWon |-> won, gameOver |-> TRUE]
    ELSE IF Includes2048(g) /\ ~won THEN [gameWon |-> TRUE, gameOver |-> over]
    ELSE [gameWon |-> won, gameOver |-> over]

\* checkGameState, script.js:300-312: the flags after the check
checkGameState(g, won, over) ==
    IF Includes2048(g) /\ ~won THEN [gameWon |-> TRUE, gameOver |-> over]
    ELSE IF ~hasMoves(g) THEN [gameWon |-> won, gameOver |-> TRUE]
    ELSE [gameWon |-> won, gameOver |-> over]

-----------------------------------------------------------------------------
(* addRandomTile, script.js:66-81.  A call of Math.random() returns a       *)
(* number in [0, 1), modelled by the fraction d[1] / d[2].  One call of     *)
(* addRandomTile draws twice, for the position and for the value; the       *)
(* pairs of draws explored are: both 0 (the first empty cell, a 2) and      *)
(* both 0.95 (the last empty cell, a 4).                                    *)

RandomDraws == {<<<<0, 1>>, <<0, 1>>>>, <<<<19, 20>>, <<19, 20>>>>}

\* the empty cells in the order of the two nested loops (row-major)
RECURSIVE EmptyFrom(_, _)
EmptyFrom(g, k) ==
    IF k = SIZE * SIZE THEN <<>>
    ELSE LET r == k \div SIZE
             c == k % SIZE
         IN  IF g[r + 1][c + 1] = 0
             THEN <<<<r, c>>>> \o EmptyFrom(g, k + 1)
             ELSE EmptyFrom(g, k + 1)

EmptyCells(g) == EmptyFrom(g, 0)

\* Math.floor(Math.random() * n)
FloorRandomTimes(d, n) == (d[1] * n) \div d[2]

\* Math.random() < 0.9 ? 2 : 4
NewTileValue(d) == IF d[1] * 10 < 9 * d[2] THEN 2 ELSE 4

\* every cell in the order of the two nested loops
AllCells == Tabulate(LAMBDA k : <<(k - 1) \div SIZE, (k - 1) % SIZE>>, SIZE * SIZE)

\* a mutant of addRandomTile: the test grid[r][c] === 0 is missing, so the
\* tile may land on an occupied cell
addRandomTileAnyCell(g, dp, dv) ==
    LET pos == AllCells[FloorRandomTimes(dp, Len(AllCells)) + 1]
    IN  [grid |-> [g EXCEPT ![pos[1] + 1][pos[2] + 1] = NewTileValue(dv)],
         pos |-> pos]

\* dp and dv are the two draws; returns the grid and the position (or Null)
addRandomTile(g, dp, dv) ==
    LET empty == EmptyCells(g)
    IN  IF Len(empty) = 0
        THEN [grid |-> g, pos |-> Null]
        ELSE LET pos == empty[FloorRandomTimes(dp, Len(empty)) + 1]
             IN  [grid |-> [g EXCEPT ![pos[1] + 1][pos[2] + 1] = NewTileValue(dv)],
                  pos |-> pos]

-----------------------------------------------------------------------------
(* The handlers.  Every handler call is one step; it appends to ops the      *)
(* path it took ("initGame", "moved", "unmoved", "rejected", "undo",        *)
(* "undoNoop") and records in pre the core state it started in.             *)

CoreState == [grid |-> grid, score |-> score, lastGrid |-> lastGrid,
              lastScore |-> lastScore, gameWon |-> gameWon, gameOver |-> gameOver]

ScoreState == [score |-> score, bestScore |-> bestScore, storedBest |-> storedBest]

Called(label) ==
    /\ Len(ops) < MaxSteps
    /\ ops' = Append(ops, label)
    /\ pre' = CoreState
    /\ UNCHANGED <<arg, ret>>

\* Array.from({ length: SIZE }, () => Array(SIZE).fill(0)), script.js:50
ZeroGrid == Tabulate(LAMBDA r : Tabulate(LAMBDA c : 0, SIZE), SIZE)

\* a mutant of the body of initGame: one tile is spawned, not two
InitGameResultOneTile(sc, d1, d2, d3, d4) ==
    LET first == addRandomTile(ZeroGrid, d1, d2)
    IN  [grid |-> first.grid, lastAddedPos |-> first.pos,
         sc |-> updateScoreDisplay(updateScoreDisplay([sc EXCEPT !.score = 0]))]

\* the body of initGame, script.js:49-63, from the score state sc; d1 .. d4
\* are the draws of the two addRandomTile calls
InitGameResult(sc, d1, d2, d3, d4) ==
    LET first == addRandomTile(ZeroGrid, d1, d2)
        second == addRandomTile(first.grid, d3, d4)
    IN  [grid |-> second.grid, lastAddedPos |-> second.pos,
         \* render() calls updateScoreDisplay, and line 62 calls it again
         sc |-> updateScoreDisplay(updateScoreDisplay([sc EXCEPT !.score = 0]))]

\* initGame as the handler of the restart button, script.js:28-33; da and db
\* hold the draws of the two addRandomTile calls
initGame ==
    \E da \in RandomDraws, db \in RandomDraws :
        \E new \in {InitGameResult(ScoreState, da[1], da[2], db[1], db[2])} :
            /\ Called("initGame")
            /\ grid' = new.grid
            /\ score' = new.sc.score
            /\ lastGrid' = Null
            /\ lastScore' = 0
            /\ lastAddedPos' = new.lastAddedPos
            /\ mergedMap' = {}
            /\ gameOver' = FALSE
            /\ gameWon' = FALSE
            /\ bestScore' = new.sc.bestScore
            /\ storedBest' = new.sc.storedBest
            /\ timers' = timers + 1

\* a mutant of the guard of handleMove: a won game still accepts moves
MoveRejectedOnlyOver(over, won) == over

\* if (gameOver || gameWon) return;  script.js:246
MoveRejected(over, won) == over \/ won

\* a mutant of handleMove: the undo snapshot is stored before the move is
\* known to have changed the grid
handleMoveSnapshotFirst(direction) ==
    IF gameOver \/ gameWon
    THEN /\ Called("rejected")
         /\ UNCHANGED <<grid, score, lastGrid, lastScore, lastAddedPos, mergedMap,
                        gameOver, gameWon, bestScore, storedBest, timers>>
    ELSE \E core \in {MoveCore(direction, grid, ScoreState)} :
             /\ lastGrid' = copyGrid(grid)
             /\ lastScore' = score
             /\ IF core.moved
                THEN \E d \in RandomDraws :
                         \E spawn \in {addRandomTile(core.grid, d[1], d[2])},
                            sc \in {updateScoreDisplay(core.sc)} :
                         \E flags \in {checkGameState(spawn.grid, gameWon, gameOver)} :
                             /\ Called("moved")
                             /\ grid' = spawn.grid
                             /\ lastAddedPos' = spawn.pos
                             /\ mergedMap' = core.mergedMap
                             /\ score' = sc.score
                             /\ bestScore' = sc.bestScore
                             /\ storedBest' = sc.storedBest
                             /\ timers' = timers + 1
                             /\ gameWon' = flags.gameWon
                             /\ gameOver' = flags.gameOver
                ELSE /\ Called("unmoved")
                     /\ grid' = core.grid
                     /\ score' = core.sc.score
                     /\ bestScore' = core.sc.bestScore
                     /\ storedBest' = core.sc.storedBest
                     /\ mergedMap' = {}
                     /\ lastAddedPos' = Null
                     /\ UNCHANGED <<gameOver, gameWon, timers>>

\* handleMove, script.js:245-270; d holds the two draws of addRandomTile
handleMove(direction) ==
    IF MoveRejected(gameOver, gameWon)
    THEN /\ Called("rejected")
         /\ UNCHANGED <<grid, score, lastGrid, lastScore, lastAddedPos, mergedMap,
                        gameOver, gameWon, bestScore, storedBest, timers>>
    ELSE \E prevGrid \in {copyGrid(grid)}, prevScore \in {score},
            core \in {MoveCore(direction, grid, ScoreState)} :
             IF core.moved
             THEN \E d \in RandomDraws :
                      \E spawn \in {addRandomTile(core.grid, d[1], d[2])},
                         \* render() calls updateScoreDisplay
                         sc \in {updateScoreDisplay(core.sc)} :
                      \E flags \in {checkGameState(spawn.grid, gameWon, gameOver)} :
                          /\ Called("moved")
                          /\ lastGrid' = prevGrid
                          /\ lastScore' = prevScore
                          /\ grid' = spawn.grid
                          /\ lastAddedPos' = spawn.pos
                          /\ mergedMap' = core.mergedMap
                          /\ score' = sc.score
                          /\ bestScore' = sc.bestScore
                          /\ storedBest' = sc.storedBest
                          /\ timers' = timers + 1
                          /\ gameWon' = flags.gameWon
                          /\ gameOver' = flags.gameOver
             ELSE /\ Called("unmoved")
                  /\ grid' = core.grid
                  /\ score' = core.sc.score
                  /\ bestScore' = core.sc.bestScore
                  /\ storedBest' = core.sc.storedBest
                  /\ mergedMap' = {}
                  /\ lastAddedPos' = Null
                  /\ UNCHANGED <<lastGrid, lastScore, gameOver, gameWon, timers>>

\* a mutant of undoMove: the snapshot is kept, so undo can be repeated
undoMoveKeepsSnapshot ==
    IF lastGrid = Null
    THEN /\ Called("undoNoop")
         /\ UNCHANGED <<grid, score, lastGrid, lastScore, lastAddedPos, mergedMap,
                        gameOver, gameWon, bestScore, storedBest, timers>>
    ELSE \E sc \in {updateScoreDisplay(updateScoreDisplay(
                         [ScoreState EXCEPT !.score = lastScore]))} :
             /\ Called("undo")
             /\ grid' = copyGrid(lastGrid)
             /\ score' = sc.score
             /\ lastAddedPos' = Null
             /\ mergedMap' = {}
             /\ gameOver' = FALSE
             /\ gameWon' = FALSE
             /\ bestScore' = sc.bestScore
             /\ storedBest' = sc.storedBest
             /\ timers' = timers + 1
             /\ UNCHANGED <<lastGrid, lastScore>>

\* a mutant of undoMove: the terminal flags are not cleared
undoMoveKeepsFlags ==
    IF lastGrid = Null
    THEN /\ Called("undoNoop")
         /\ UNCHANGED <<grid, score, lastGrid, lastScore, lastAddedPos, mergedMap,
                        gameOver, gameWon, bestScore, storedBest, timers>>
    ELSE \E sc \in {updateScoreDisplay(updateScoreDisplay(
                         [ScoreState EXCEPT !.score = lastScore]))} :
             /\ Called("undo")
             /\ grid' = copyGrid(lastGrid)
             /\ score' = sc.score
             /\ lastGrid' = Null
             /\ lastScore' = 0
             /\ lastAddedPos' = Null
             /\ mergedMap' = {}
             /\ bestScore' = sc.bestScore
             /\ storedBest' = sc.storedBest
             /\ timers' = timers + 1
             /\ UNCHANGED <<gameOver, gameWon>>

\* undoMove, script.js:273-286
undoMove ==
    IF lastGrid = Null
    THEN /\ Called("undoNoop")
         /\ UNCHANGED <<grid, score, lastGrid, lastScore, lastAddedPos, mergedMap,
                        gameOver, gameWon, bestScore, storedBest, timers>>
    ELSE \E sc \in {updateScoreDisplay(updateScoreDisplay(
                         [ScoreState EXCEPT !.score = lastScore]))} :
             /\ Called("undo")
             /\ grid' = copyGrid(lastGrid)
             /\ score' = sc.score
             /\ lastGrid' = Null
             /\ lastScore' = 0
             /\ lastAddedPos' = Null
             /\ mergedMap' = {}
             /\ gameOver' = FALSE
             /\ gameWon' = FALSE
             /\ bestScore' = sc.bestScore
             /\ storedBest' = sc.storedBest
             /\ timers' = timers + 1

\* a mutant of the callback: it also drops the undo snapshot
timerFiresClearsSnapshot ==
    /\ timers > 0
    /\ timers' = timers - 1
    /\ mergedMap' = {}
    /\ lastAddedPos' = Null
    /\ lastGrid' = Null
    /\ UNCHANGED <<grid, score, lastScore, gameOver, gameWon, bestScore,
                   storedBest, ops, pre, arg, ret>>

\* the callback render hands to setTimeout, script.js:338-346
timerFires ==
    /\ timers > 0
    /\ timers' = timers - 1
    /\ mergedMap' = {}
    /\ lastAddedPos' = Null
    /\ UNCHANGED <<grid, score, lastGrid, lastScore, gameOver, gameWon, bestScore,
                   storedBest, ops, pre, arg, ret>>

-----------------------------------------------------------------------------
(* Start states.  The page is either freshly loaded (DOMContentLoaded has   *)
(* run initGame, script.js:27-46; its timer is still pending) or it is in   *)
(* the middle of a game, in one of four positions recorded from             *)
(* play-throughs of the program from initGame: the grid, the score, the     *)
(* undo snapshot left by the move before, and the best score.               *)

\* after 28 moves: a left move merges 16,16 and 4,4, and the 8 made of 4,4
\* comes to rest beside an 8
MidGame ==
    [grid |-> << <<64, 16, 16, 4>>, <<0, 4, 4, 8>>, <<0, 0, 0, 0>>, <<0, 0, 0, 0>> >>,
     score |-> 332,
     lastGrid |-> << <<64, 16, 8, 4>>, <<0, 0, 8, 8>>, <<0, 0, 4, 0>>, <<0, 0, 0, 0>> >>,
     lastScore |-> 316, bestScore |-> 332]

\* after 40 moves: the board is full; left or right merges 4,4 and a spawned
\* 4 leaves no move
NearOver ==
    [grid |-> << <<2, 4, 4, 2>>, <<16, 32, 2, 8>>, <<4, 2, 32, 4>>, <<2, 16, 4, 2>> >>,
     score |-> 284,
     lastGrid |-> << <<2, 32, 4, 2>>, <<16, 2, 2, 8>>, <<4, 16, 32, 4>>, <<2, 0, 4, 2>> >>,
     lastScore |-> 284, bestScore |-> 284]

\* after 543 moves: two 1024 tiles side by side on a half-empty board
NearWin ==
    [grid |-> << <<1024, 1024, 64, 4>>, <<4, 16, 32, 0>>, <<8, 0, 0, 0>>, <<0, 0, 0, 0>> >>,
     score |-> 16780,
     lastGrid |-> << <<1024, 512, 512, 64>>, <<4, 8, 8, 32>>, <<0, 0, 0, 8>>, <<0, 0, 0, 0>> >>,
     lastScore |-> 15740, bestScore |-> 16780]

\* after 557 moves: the board is full; down merges the two 1024 tiles and a
\* spawned 4 leaves a board with a 2048 and no move
NearWinFull ==
    [grid |-> << <<2, 1024, 64, 4>>, <<4, 1024, 16, 32>>, <<8, 4, 2, 4>>, <<2, 8, 16, 2>> >>,
     score |-> 16828,
     lastGrid |-> << <<2, 1024, 64, 4>>, <<4, 1024, 16, 32>>, <<8, 4, 2, 4>>, <<0, 2, 8, 16>> >>,
     lastScore |-> 16828, bestScore |-> 16828]

RecordedPositions == {MidGame, NearOver, NearWin, NearWinFull}

\* parseInt(localStorage.getItem('bestScore')) || 0, script.js:9, for an item
\* that is absent (Null) or holds the decimal digits of a number
LoadBestScore(item) == IF item = Null THEN 0 ELSE parseInt(item)

HistoryInit ==
    /\ ops = <<>>
    /\ pre = CoreState

FreshlyLoaded ==
    \E da \in RandomDraws, db \in RandomDraws, item \in {Null} :
        \E new \in {InitGameResult([score |-> 0, bestScore |-> LoadBestScore(item),
                                     storedBest |-> item], da[1], da[2], db[1], db[2])} :
            /\ grid = new.grid
            /\ score = new.sc.score
            /\ lastGrid = Null
            /\ lastScore = 0
            /\ lastAddedPos = new.lastAddedPos
            /\ mergedMap = {}
            /\ gameOver = FALSE
            /\ gameWon = FALSE
            /\ bestScore = new.sc.bestScore
            /\ storedBest = new.sc.storedBest
            /\ timers = 1

InPlay ==
    \E p \in RecordedPositions :
        /\ grid = p.grid
        /\ score = p.score
        /\ lastGrid = p.lastGrid
        /\ lastScore = p.lastScore
        /\ lastAddedPos = Null
        /\ mergedMap = {}
        /\ gameOver = FALSE
        /\ gameWon = FALSE
        /\ bestScore = p.bestScore
        /\ storedBest = toString(p.bestScore)
        /\ timers = 0

Init ==
    /\ FreshlyLoaded \/ InPlay
    /\ HistoryInit
    /\ arg = Null
    /\ ret = Null

Next ==
    \/ initGame
    \/ \E direction \in Directions : handleMove(direction)
    \/ undoMove
    \/ timerFires

Spec == Init /\ [][Next]_vars

-----------------------------------------------------------------------------
(* The pure functions on their own.  The script as loaded, before           *)
(* DOMContentLoaded (script.js:9-19), holds the game variables while the    *)
(* function under check is applied to an enumerated input.                  *)

ScriptLoaded ==
    /\ grid = <<>>
    /\ score = 0
    /\ lastGrid = Null
    /\ lastScore = 0
    /\ lastAddedPos = Null
    /\ mergedMap = {}
    /\ gameOver = FALSE
    /\ gameWon = FALSE
    /\ bestScore = 0
    /\ storedBest = Null
    /\ timers = 0
    /\ HistoryInit

\* 0 and the tile values 2, 4, ..., 2^maxExp
TileValues(maxExp) == {0} \cup {Pow2(e) : e \in 1 .. maxExp}

\* every line of length SIZE over the tile values up to 2^MaxLineExp
Lines == [1 .. SIZE -> TileValues(MaxLineExp)]

LineInit ==
    /\ ScriptLoaded
    /\ arg \in Lines
    /\ ret = Null

applySlideCombineRow ==
    /\ ret = Null
    /\ ret' = slideCombineRow(arg)
    /\ UNCHANGED <<gameVars, arg>>

LineSpec == LineInit /\ [][applySlideCombineRow]_vars

(* Grids.  The two boards without a move that the recorded positions lead   *)
(* to (after NearOver's right move, after NearWinFull's down move) and the  *)
(* empty board, each with up to MaxEdits cells overwritten.  Boards with    *)
(* fewer than two tiles are left out: initGame places two tiles before      *)
(* anything reads the grid, and a changed move merges at most down to one   *)
(* tile and then spawns another, so hasMoves and the cores never see one.   *)

OverBoard == << <<4, 2, 8, 2>>, <<16, 32, 2, 8>>, <<4, 2, 32, 4>>, <<2, 16, 4, 2>> >>

WonFullBoard == << <<2, 4, 64, 4>>, <<4, 2048, 16, 32>>, <<8, 4, 2, 4>>, <<2, 8, 16, 2>> >>

EditValues == {0, 2, 4}

\* g with cell p set to v
SetCell(g, p, v) == [g EXCEPT ![p[1] + 1][p[2] + 1] = v]

RECURSIVE Edited(_, _)
Edited(bases, n) ==
    IF n = 0 THEN bases
    ELSE LET fewer == Edited(bases, n - 1)
         IN  fewer \cup {SetCell(g, p, v) : g \in fewer, p \in Pos, v \in EditValues}

\* the number of tiles on g
TileCount(g) == Cardinality({p \in Pos : g[p[1] + 1][p[2] + 1] # 0})

Grids == {g \in Edited({OverBoard, WonFullBoard, ZeroGrid}, MaxEdits) : TileCount(g) >= 2}

NoScore == [score |-> 0, bestScore |-> 0, storedBest |-> Null]

GridInit ==
    /\ ScriptLoaded
    /\ arg \in Grids
    /\ ret = Null

\* hasMoves, checkGameState from the playing state, and the four cores on arg
applyToGrid ==
    /\ ret = Null
    /\ ret' = [hasMoves |-> hasMoves(arg),
               flags |-> checkGameState(arg, FALSE, FALSE),
               left |-> moveLeftCore(arg, NoScore),
               right |-> moveRightCore(arg, NoScore),
               up |-> moveUpCore(arg, NoScore),
               down |-> moveDownCore(arg, NoScore)]
    /\ UNCHANGED <<gameVars, arg>>

GridSpec == GridInit /\ [][applyToGrid]_vars

-----------------------------------------------------------------------------
(* Reading the history *)

\* the path of the last handler call, "start" before the first
LastOp == IF ops = <<>> THEN "start" ELSE ops[Len(ops)]

\* the step is a handler call; the handler took one of the paths in labels
CallStep(labels) == Len(ops') = Len(ops) + 1 /\ ops'[Len(ops')] \in labels

HandleMoveStep == CallStep({"moved", "unmoved", "rejected"})

UndoMoveStep == CallStep({"undo", "undoNoop"})

CoreUnchanged == UNCHANGED <<grid, score, lastGrid, lastScore, gameWon, gameOver>>

-----------------------------------------------------------------------------
(* C1.  The reference rule of the line transform: zeros removed, then one   *)
(* pass from the left in which two equal neighbours become one tile of      *)
(* double value and the pass resumes behind that tile.                      *)

Compacted(line) == SelectSeq(line, LAMBDA v : v # 0)

\* the merged line, the output positions of the merged tiles (out is the
\* output position of the head of s) and the gain
RECURSIVE RefMerge(_, _)
RefMerge(s, out) ==
    IF Len(s) = 0 THEN [line |-> <<>>, merged |-> {}, gained |-> 0]
    ELSE IF Len(s) >= 2 /\ s[1] = s[2]
         THEN LET rest == RefMerge(SubSeq(s, 3, Len(s)), out + 1)
              IN  [line |-> <<s[1] + s[2]>> \o rest.line,
                   merged |-> {out} \cup rest.merged,
                   gained |-> s[1] + s[2] + rest.gained]
         ELSE LET rest == RefMerge(Tail(s), out + 1)
              IN  [line |-> <<s[1]>> \o rest.line, merged |-> rest.merged,
                   gained |-> rest.gained]

Reference(line) ==
    LET m == RefMerge(Compacted(line), 0)
    IN  [newRow |-> m.line \o [k \in 1 .. (SIZE - Len(m.line)) |-> 0],
         merged |-> m.merged, gained |-> m.gained]

SameAsReference(line, out) ==
    /\ out.newRow = Reference(line).newRow
    /\ Len(out.newRow) = SIZE
    /\ Range(out.mergedIndices) = Reference(line).merged
    /\ Len(out.mergedIndices) = Cardinality(Reference(line).merged)
    /\ out.gained = Reference(line).gained

\* C1: for every line of length 4 over the tile values, slideCombineRow returns
\* what the single-pass, left-biased reference rule returns (the row, the output
\* positions of the merged tiles, the gain), and the three examples of the
\* specification come out as stated.
C1_SlideCombineRowIsReference ==
    ret # Null =>
        /\ SameAsReference(arg, ret)
        /\ arg = <<2, 2, 2, 2>> =>
               ret = [newRow |-> <<4, 4, 0, 0>>, mergedIndices |-> <<0, 1>>, gained |-> 8]
        /\ arg = <<0, 2, 0, 2>> =>
               ret = [newRow |-> <<4, 0, 0, 0>>, mergedIndices |-> <<0>>, gained |-> 4]
        /\ arg = <<2, 4, 2, 4>> =>
               ret = [newRow |-> <<2, 4, 2, 4>>, mergedIndices |-> <<>>, gained |-> 0]

\* a line on which a chained merge would differ: 2,2,4,8 gives 4,4,8, not 16
C1_Witness ==
    /\ ret # Null
    /\ arg = <<2, 2, 4, 8>>
    /\ ret.newRow = <<4, 4, 8, 0>>
    /\ ret.gained = 4

-----------------------------------------------------------------------------
(* C2 *)

\* C2: when undoMove is called right after a move that changed the grid, it
\* takes the restoring path and the grid and the score are those the move
\* started from; when undoMove is called right after a restoring undoMove, it
\* takes the early return and grid, score, flags and snapshot stay as they are.
C2_UndoRoundTrip ==
    [][/\ (LastOp = "moved" /\ UndoMoveStep) =>
              /\ CallStep({"undo"})
              /\ grid' = pre.grid
              /\ score' = pre.score
       /\ (LastOp = "undo" /\ UndoMoveStep) =>
              /\ CallStep({"undoNoop"})
              /\ CoreUnchanged]_vars

\* a move with a merge, undone, and undoMove called once more
C2_Witness ==
    /\ ops = <<"moved", "undo", "undoNoop">>
    /\ score = MidGame.score
    /\ grid = MidGame.grid
    /\ lastGrid = Null

-----------------------------------------------------------------------------
(* C3 *)

\* C3: a call of handleMove that starts with gameWon or gameOver true takes the
\* early return, and grid, score, gameWon, gameOver, lastGrid and lastScore are
\* what they were before the call (so no tile was spawned).
C3_TerminalMoveRejected ==
    (LastOp \in {"moved", "unmoved", "rejected"} /\ (pre.gameWon \/ pre.gameOver)) =>
        /\ LastOp = "rejected"
        /\ CoreState = pre

\* the move that ended the game (won or lost) is followed by a rejected move,
\* the snapshot of the ending move still held
C3_Witness ==
    /\ LastOp = "rejected"
    /\ gameWon \/ gameOver
    /\ lastGrid # Null
    /\ Len(ops) >= 2
    /\ ops[Len(ops) - 1] = "moved"

-----------------------------------------------------------------------------
(* C4 *)

\* C4: a call of handleMove in a playing state whose core reports no change
\* leaves grid, score, gameWon, gameOver, lastGrid and lastScore as they were,
\* and no tile is marked as spawned.
C4_UnchangedMoveFrame ==
    [][CallStep({"unmoved"}) =>
           /\ ~gameWon /\ ~gameOver
           /\ CoreUnchanged
           /\ lastAddedPos' = Null]_vars

\* an unchanged move right after a changed one, the snapshot of the changed
\* move still held
C4_Witness ==
    /\ Len(ops) >= 2
    /\ ops[Len(ops) - 1] = "moved"
    /\ LastOp = "unmoved"
    /\ lastGrid # Null
    /\ lastGrid # grid

-----------------------------------------------------------------------------
(* C5 *)

\* the value of the tile the last move spawned
SpawnedValue == grid[lastAddedPos[1] + 1][lastAddedPos[2] + 1]

\* the claim as stated: after a changed move, the sum of the cells minus the
\* sum before the move is the score gained plus the value of the spawned tile
C5_AsStated ==
    (LastOp = "moved" /\ lastAddedPos # Null) =>
        GridSum(grid) - GridSum(pre.grid) = (score - pre.score) + SpawnedValue

\* C5: after a changed move, the sum of the cells minus the sum before the move
\* is the value of the spawned tile alone; a merge turns v, v into 2v and so
\* leaves the sum as it is, whatever it adds to the score.
C5_SumGrowsBySpawnedTile ==
    (LastOp = "moved" /\ lastAddedPos # Null) =>
        /\ GridSum(grid) - GridSum(pre.grid) = SpawnedValue
        /\ SpawnedValue \in {2, 4}
        /\ score >= pre.score

\* a changed move that merged tiles
C5_Witness ==
    /\ LastOp = "moved"
    /\ lastAddedPos # Null
    /\ score > pre.score

-----------------------------------------------------------------------------
(* C6 *)

\* the core left g as it was and reported no change
Unproductive(core, g) == core.grid = g /\ ~core.moved

AllUnproductive(g, out) ==
    /\ Unproductive(out.left, g)
    /\ Unproductive(out.right, g)
    /\ Unproductive(out.up, g)
    /\ Unproductive(out.down, g)

NoEmptyCell(g) == \A p \in Pos : g[p[1] + 1][p[2] + 1] # 0

NoEqualNeighbours(g) ==
    \A p \in Pos :
        /\ p[2] < SIZE - 1 => g[p[1] + 1][p[2] + 1] # g[p[1] + 1][p[2] + 2]
        /\ p[1] < SIZE - 1 => g[p[1] + 1][p[2] + 1] # g[p[1] + 2][p[2] + 1]

\* C6: on every grid, hasMoves is false exactly when there is no empty cell and
\* no two equal neighbours in a row or a column, which is exactly when each of
\* the four cores leaves the grid unchanged; checkGameState sets gameOver only
\* on such a grid.
C6_HasMovesAgreesWithCores ==
    ret # Null =>
        /\ ~ret.hasMoves <=> (NoEmptyCell(arg) /\ NoEqualNeighbours(arg))
        /\ ~ret.hasMoves <=> AllUnproductive(arg, ret)
        /\ ret.flags.gameOver => AllUnproductive(arg, ret)

\* a full board whose only equal neighbours are in a column: hasMoves is true
\* and only the vertical cores change the grid
C6_Witness ==
    /\ ret # Null
    /\ arg = SetCell(OverBoard, <<3, 0>>, 4)
    /\ ret.hasMoves
    /\ ~ret.left.moved /\ ~ret.right.moved
    /\ ret.up.moved /\ ret.down.moved
    /\ ~ret.flags.gameOver

-----------------------------------------------------------------------------
(* C7 *)

\* C7: gameWon and gameOver are never both true, and a step that turns one of
\* them from false to true is a call of handleMove that started with both
\* false and whose core changed the grid.
C7_WonOverExclusive ==
    [][/\ ~(gameWon' /\ gameOver')
       /\ ((gameWon' /\ ~gameWon) \/ (gameOver' /\ ~gameOver)) =>
              /\ CallStep({"moved"})
              /\ ~gameWon /\ ~gameOver
              /\ \E direction \in Directions :
                     LET core == MoveCore(direction, grid, ScoreState)
                     IN  core.moved /\ core.grid # grid]_vars

\* the game was just lost by a changed move
C7_Witness ==
    /\ LastOp = "moved"
    /\ gameOver
    /\ ~gameWon
    /\ ~pre.gameOver
    /\ ~hasMoves(grid)

-----------------------------------------------------------------------------
(* C8 *)

\* C8: a changed move whose grid, spawned tile included, holds a 2048 ends with
\* gameWon true and gameOver false, whether or not a move is left; while
\* gameWon is true every call of handleMove takes the early return and changes
\* nothing, and gameWon turns false only in initGame or in a restoring undoMove.
C8_WinAbsorbing ==
    [][/\ (CallStep({"moved"}) /\ Includes2048(grid')) => (gameWon' /\ ~gameOver')
       /\ (gameWon /\ HandleMoveStep) => (CallStep({"rejected"}) /\ CoreUnchanged)
       /\ (gameWon /\ ~gameWon') => CallStep({"initGame", "undo"})]_vars

\* the winning move left a board without a move, and the next move was rejected
C8_Witness ==
    /\ Len(ops) >= 2
    /\ ops[Len(ops) - 1] = "moved"
    /\ LastOp = "rejected"
    /\ gameWon
    /\ ~gameOver
    /\ Includes2048(grid)
    /\ ~hasMoves(grid)

-----------------------------------------------------------------------------
(* C9 *)

\* C9: after an undoMove that found a snapshot, the grid is the snapshot, both
\* flags are false, the snapshot is cleared, the grid holds no 2048 and at
\* least one of the four cores changes it.
C9_UndoReturnsToPlay ==
    LastOp = "undo" =>
        /\ pre.lastGrid # Null
        /\ grid = pre.lastGrid
        /\ ~gameWon
        /\ ~gameOver
        /\ lastGrid = Null
        /\ ~Includes2048(grid)
        /\ \E direction \in Directions : MoveCore(direction, grid, NoScore).moved

\* the winning move undone
C9_Witness ==
    /\ LastOp = "undo"
    /\ pre.gameWon
    /\ Includes2048(pre.grid)
    /\ ~gameWon

-----------------------------------------------------------------------------
(* C10 *)

\* C10: after initGame, from whatever state, the score is 0, both flags are
\* false, no snapshot is held, and the grid has exactly two tiles, each a 2 or
\* a 4; undoMove called right after initGame takes the early return and
\* changes nothing.
C10_InitGameResult ==
    /\ LastOp = "initGame" =>
           /\ score = 0
           /\ ~gameWon
           /\ ~gameOver
           /\ lastGrid = Null
           /\ TileCount(grid) = 2
           /\ \A p \in Pos : grid[p[1] + 1][p[2] + 1] \in {0, 2, 4}
    /\ (Len(ops) >= 2 /\ ops[Len(ops) - 1] = "initGame"
            /\ LastOp \in {"undo", "undoNoop"}) =>
           /\ LastOp = "undoNoop"
           /\ CoreState = pre

\* initGame in a won game with a snapshot held
C10_Witness ==
    /\ LastOp = "initGame"
    /\ pre.gameWon
    /\ pre.lastGrid # Null
    /\ pre.score > 0

-----------------------------------------------------------------------------
(* C11.  handleMove is a global function of the script: besides the         *)
(* listeners, which pass one of the four strings, any caller can hand it    *)
(* any value.  Here arg is the direction such a caller passes.              *)

\* the four strings the listeners pass and a value that is none of them
DirectionArgs == Directions \cup {"diagonal"}

ApiInit ==
    /\ FreshlyLoaded \/ InPlay
    /\ HistoryInit
    /\ arg \in DirectionArgs
    /\ ret = Null

ApiNext ==
    \/ handleMove(arg)
    \/ undoMove
    \/ timerFires

ApiSpec == ApiInit /\ [][ApiNext]_vars

\* C11: a call of handleMove with a direction that is none of 'left', 'right',
\* 'up', 'down' ends in an InvalidArgument error; it does not take the path of
\* an unchanged move or any other path of a valid call.
C11_InvalidDirectionFailsFast ==
    (arg \notin Directions /\ LastOp \in {"moved", "unmoved", "rejected"}) =>
        LastOp = "invalidArgument"

\* what the code does with such a direction in a playing state: the path of an
\* unchanged move, which returns normally after clearing the animation marks
C11_Witness ==
    /\ arg \notin Directions
    /\ LastOp = "unmoved"
    /\ CoreState = pre
    /\ lastAddedPos = Null
    /\ mergedMap = {}

-----------------------------------------------------------------------------
(* C12.  slideCombineRow applied to a line and then to its own result *)

\* the second call, on the row the first call returned
applyAgain ==
    /\ ret # Null
    /\ "first" \notin DOMAIN ret
    /\ ret' = [first |-> ret, second |-> slideCombineRow(ret.newRow)]
    /\ UNCHANGED <<gameVars, arg>>

LineTwiceSpec == LineInit /\ [][applySlideCombineRow \/ applyAgain]_vars

\* no two neighbours of the line are equal and non-zero
NoAdjacentEqual(line) ==
    \A i \in 1 .. (Len(line) - 1) : ~(line[i] # 0 /\ line[i] = line[i + 1])

\* C12: for every line, if the row slideCombineRow returns has no two equal
\* non-zero neighbours, slideCombineRow applied to that row returns the same
\* row, gained 0 and no merged index.
C12_StableOutputIsFixed ==
    ("second" \in DOMAIN ret /\ NoAdjacentEqual(ret.first.newRow)) =>
        ret.second = [newRow |-> ret.first.newRow, mergedIndices |-> <<>>, gained |-> 0]

\* a line whose first pass slides and merges and leaves a stable row with
\* trailing zeros
C12_Witness ==
    /\ "second" \in DOMAIN ret
    /\ arg = <<2, 0, 2, 8>>
    /\ ret.first.newRow = <<4, 8, 0, 0>>
    /\ ret.first.gained = 4
    /\ ret.second.newRow = <<4, 8, 0, 0>>

-----------------------------------------------------------------------------
(* C13.  The orientation mappings of a grid and of a set of positions *)

\* every row reversed
MirrorH(g) == Tabulate(LAMBDA r : Reverse(g[r]), SIZE)

\* the rows in reverse order
MirrorV(g) == Reverse(g)

Transpose(g) == Tabulate(LAMBDA r : Column(g, r - 1), SIZE)

MirrorHPos(ps) == {<<p[1], SIZE - 1 - p[2]>> : p \in ps}

MirrorVPos(ps) == {<<SIZE - 1 - p[1], p[2]>> : p \in ps}

TransposePos(ps) == {<<p[2], p[1]>> : p \in ps}

\* what core returned is what other returned, carried back by the mappings
SameUnder(core, other, MapGrid(_), MapPos(_)) ==
    /\ core.grid = MapGrid(other.grid)
    /\ core.moved = other.moved
    /\ core.sc.score = other.sc.score
    /\ core.mergedMap = MapPos(other.mergedMap)

\* C13: on every grid G, moveRightCore(G) is the horizontal mirror of
\* moveLeftCore on the mirror of G, moveUpCore(G) is the transpose of
\* moveLeftCore on the transpose of G, and moveDownCore(G) is the vertical
\* mirror of moveUpCore on the vertically mirrored G: the same grid, the same
\* moved flag, the same score gained, and the merged positions carried over by
\* the same mapping.
C13_OrientationEquivalence ==
    ret # Null =>
        /\ SameUnder(ret.right, moveLeftCore(MirrorH(arg), NoScore), MirrorH, MirrorHPos)
        /\ SameUnder(ret.up, moveLeftCore(Transpose(arg), NoScore), Transpose, TransposePos)
        /\ SameUnder(ret.down, moveUpCore(MirrorV(arg), NoScore), MirrorV, MirrorVPos)

\* a row with three equal tiles: left and right merge different pairs, and a
\* column merges as well
C13_Witness ==
    /\ ret # Null
    /\ arg = SetCell(SetCell(OverBoard, <<0, 2>>, 2), <<3, 0>>, 4)
    /\ ret.left.grid[1] = <<4, 4, 2, 0>>
    /\ ret.right.grid[1] = <<0, 4, 2, 4>>
    /\ ret.right.mergedMap = {<<0, 3>>}
    /\ ret.up.moved /\ ret.down.moved
    /\ ret.up.mergedMap # ret.down.mergedMap

-----------------------------------------------------------------------------
(* C14 *)

\* after is slid with exactly the cell at pos, empty in slid, set to a 2 or a 4
SpawnedOneTile(slid, after, pos) ==
    /\ pos \in Pos
    /\ slid[pos[1] + 1][pos[2] + 1] = 0
    /\ after[pos[1] + 1][pos[2] + 1] \in {2, 4}
    /\ \A p \in Pos \ {pos} : after[p[1] + 1][p[2] + 1] = slid[p[1] + 1][p[2] + 1]

\* C14: a call of handleMove whose core changed the grid leaves, for the
\* direction it was called with, a slid grid with at least one empty cell;
\* addRandomTile returns a position, and the new grid is the slid grid with
\* exactly that one empty cell set to 2 or 4.  On every grid a handler leaves,
\* addRandomTile returns null exactly when no cell is empty, and then changes
\* no cell.
C14_ChangedMoveSpawnsOne ==
    [][/\ CallStep({"moved"}) =>
              \E direction \in Directions :
                  LET core == MoveCore(direction, grid, ScoreState)
                  IN  /\ core.moved
                      /\ ~NoEmptyCell(core.grid)
                      /\ lastAddedPos' # Null
                      /\ SpawnedOneTile(core.grid, grid', lastAddedPos')
       /\ grid' # grid =>
              \A d \in RandomDraws :
                  LET spawn == addRandomTile(grid', d[1], d[2])
                  IN  /\ spawn.pos = Null <=> NoEmptyCell(grid')
                      /\ spawn.pos = Null => spawn.grid = grid'
                      /\ spawn.pos # Null => SpawnedOneTile(grid', spawn.grid, spawn.pos)]_vars

\* a move on a full board: the merge frees one cell and the spawn fills it
C14_Witness ==
    /\ LastOp = "moved"
    /\ NoEmptyCell(pre.grid)
    /\ NoEmptyCell(grid)
    /\ lastAddedPos # Null
    /\ grid[lastAddedPos[1] + 1][lastAddedPos[2] + 1] \in {2, 4}

-----------------------------------------------------------------------------
(* C15 *)

\* the step runs one pending callback of render
TimerStep == timers' = timers - 1

\* C15: whenever a pending callback of render runs, between whatever calls of
\* initGame, handleMove and undoMove, it changes nothing but mergedMap,
\* lastAddedPos and the number of pending callbacks: grid, score, gameWon,
\* gameOver, lastGrid, lastScore and the best score stay as they are, and it
\* is not counted as a handler call.
C15_TimerLeavesCoreAlone ==
    [][TimerStep =>
           /\ CoreUnchanged
           /\ UNCHANGED <<bestScore, storedBest, ops, pre>>
           /\ mergedMap' = {}
           /\ lastAddedPos' = Null]_vars

\* two changed moves within the delay: the callback of the first has run after
\* the second move and cleared the marks of the second, whose own callback is
\* still pending
C15_Witness ==
    /\ ops = <<"moved", "moved">>
    /\ timers = 1
    /\ lastAddedPos = Null
    /\ mergedMap = {}
    /\ score > pre.score
    /\ lastGrid = pre.grid

-----------------------------------------------------------------------------
(* C16 *)

\* C16: no step lowers bestScore; after every call of initGame, handleMove or
\* undoMove bestScore >= score; and a step rewrites the stored best score
\* exactly when it leaves a score above the bestScore it started with, the
\* value written being that score, which is also the new bestScore; so the
\* stored value, read back as at startup, is always bestScore.
C16_BestScoreTracking ==
    [][/\ bestScore' >= bestScore
       /\ CallStep({"initGame", "moved", "unmoved", "rejected", "undo", "undoNoop"}) =>
              bestScore' >= score'
       /\ storedBest' # storedBest <=> score' > bestScore
       /\ storedBest' # storedBest =>
              (storedBest' = toString(score') /\ bestScore' = score')
       /\ bestScore' = LoadBestScore(storedBest')]_vars

\* a move raised the score above the best score, which was stored; the undo
\* lowered the score and left the best score and the stored value
C16_Witness ==
    /\ ops = <<"moved", "undo">>
    /\ score < pre.score
    /\ bestScore = pre.score
    /\ storedBest = toString(bestScore)
    /\ bestScore > MidGame.bestScore

-----------------------------------------------------------------------------
(* C17 *)

\* C17: in every reachable state gameWon is true exactly when some cell is
\* 2048; gameOver true implies no empty cell and no two equal neighbours; and
\* with both flags false at least one of the four cores changes the grid.
C17_FlagsDescribeGrid ==
    /\ gameWon <=> Includes2048(grid)
    /\ gameOver => (NoEmptyCell(grid) /\ NoEqualNeighbours(grid))
    /\ (~gameWon /\ ~gameOver) =>
           \E direction \in Directions : MoveCore(direction, grid, NoScore).moved

\* won on a board without a move: gameOver stays false there, which the
\* implication allows
C17_Witness ==
    /\ gameWon
    /\ Includes2048(grid)
    /\ ~gameOver
    /\ NoEmptyCell(grid)
    /\ NoEqualNeighbours(grid)
    /\ LastOp = "moved"

-----------------------------------------------------------------------------
(* C18 *)

\* C18: in every state with gameWon or gameOver true a snapshot is held; the
\* step that sets the flag stores as snapshot the grid and the score it started
\* from, and the snapshot stays as it is for as long as a flag is true.
C18_TerminalUndoable ==
    [][/\ (gameWon' \/ gameOver') => lastGrid' # Null
       /\ (~(gameWon \/ gameOver) /\ (gameWon' \/ gameOver')) =>
              (lastGrid' = grid /\ lastScore' = score)
       /\ ((gameWon \/ gameOver) /\ (gameWon' \/ gameOver')) =>
              UNCHANGED <<lastGrid, lastScore>>]_vars

\* a lost game, after a further rejected move: the snapshot is the board and
\* the score from before the losing move
C18_Witness ==
    /\ ops = <<"moved", "rejected">>
    /\ gameOver
    /\ lastGrid = NearOver.grid
    /\ lastScore = NearOver.score
    /\ lastScore < score

-----------------------------------------------------------------------------
(* C19 *)

\* 0 and the powers of two from 2 to the win threshold
TilesUpToWin == {v \in TileValues(SIZE * SIZE) : v <= WinTile}

InRange(g) == \A p \in Pos : g[p[1] + 1][p[2] + 1] \in TilesUpToWin

\* C19: in every reachable state every cell of the grid is 0 or a power of two
\* from 2 to 2048, at most one cell is 2048, and a held snapshot is in range
\* and has no 2048, so neither a move nor an undo can bring two 2048 tiles
\* together.
C19_TilesInRange ==
    /\ InRange(grid)
    /\ Cardinality({p \in Pos : grid[p[1] + 1][p[2] + 1] = WinTile}) <= 1
    /\ lastGrid # Null => (InRange(lastGrid) /\ ~Includes2048(lastGrid))

\* a 2048 made of two 1024 tiles, the next move rejected, the snapshot still
\* holding the two 1024 tiles
C19_Witness ==
    /\ Includes2048(grid)
    /\ LastOp = "rejected"
    /\ lastGrid # Null
    /\ \E r \in 1 .. SIZE : Cardinality({c \in 1 .. SIZE : lastGrid[r][c] = 1024}) = 2

-----------------------------------------------------------------------------
(* C20 *)

\* the sum of the cells of g at the positions ps
SumAt(g, ps) ==
    SumSeq(Tabulate(LAMBDA k : IF AllCells[k] \in ps
                              THEN g[AllCells[k][1] + 1][AllCells[k][2] + 1]
                              ELSE 0, SIZE * SIZE))

\* C20: a call of handleMove that changed the grid adds to score exactly the
\* sum of the tiles its merges produced (the cells at the positions of
\* mergedMap), never less than 0; an unchanged or rejected call leaves score as
\* it is; whenever a snapshot is held lastScore <= score, and undoMove does
\* not raise the score.
C20_ScoreMonotone ==
    [][/\ CallStep({"moved"}) =>
              /\ score' - score = SumAt(grid', mergedMap')
              /\ score' >= score
       /\ CallStep({"unmoved", "rejected"}) => score' = score
       /\ lastGrid' # Null => lastScore' <= score'
       /\ UndoMoveStep => score' <= score]_vars

\* a move with two merges (16 + 16 and 4 + 4 give 40), its marks not yet
\* cleared
C20_Witness ==
    /\ LastOp = "moved"
    /\ Cardinality(mergedMap) = 2
    /\ pre.score = MidGame.score
    /\ score = pre.score + 40
    /\ lastScore = pre.score

====
